---- MODULE Spec2Model ----
(***************************************************************************)
(* Model of src/include/primer/p0_starter.h (BusTub primer project):       *)
(* Matrix<T>, RowMatrix<T> and RowMatrixOperations<T>.                      *)
(*                                                                         *)
(* The heap is a map from block addresses to the cells of the block that   *)
(* malloc returned.  A RowMatrix is the record of its fields: rows_,       *)
(* cols_, linear_ (the address of its block) and data_ (one pointer per    *)
(* row, a pointer being a block address and an offset into the block).     *)
(* The caller holds four matrix pointers: the operands A, B, C and the     *)
(* result R of the last operation (nullptr when there is none).            *)
(*                                                                         *)
(* GEMM is no step of the program: its body is ill-formed (line 280), so   *)
(* no translation unit that calls it builds.                               *)
(*                                                                         *)
(* Three specifications share the variables and the actions:               *)
(*   SpecMatrix  the accessors GetElement, SetElement and FillFrom called  *)
(*               in any order on one matrix of any shape, T = int;         *)
(*   SpecOps     Add and Multiply called in any order on three operands    *)
(*               of any shapes and contents, T = int;                      *)
(*   SpecWide    the same operations with T = int64_t, elements held as    *)
(*               their bytes, so that the width of `int sum` shows.        *)
(***************************************************************************)
EXTENDS Integers, Sequences, FiniteSets, TLC

VARIABLES
  T,      \* the element type the templates are instantiated with
  heap,   \* block address -> sequence of cells (the malloc'ed buffers)
  mats,   \* caller's pointers: slot -> RowMatrix record, or Null
  last    \* the call made last, with its arguments and its outcome

vars == <<T, heap, mats, last>>

(***************************************************************************)
(* Bounds of the model.                                                    *)
(***************************************************************************)
MaxDim == 2      \* rows and cols of a constructed matrix range over 0..MaxDim
MaxCells == 2    \* a constructed operand has at most MaxCells elements
MaxVal == 1      \* an element the caller supplies is 0 or MaxVal
MaxSource == 4   \* a source handed to FillFrom has at most MaxSource elements

Dims == 0 .. MaxDim
Shapes == {s \in Dims \X Dims : s[1] * s[2] <= MaxCells}
Values == {0, MaxVal}
Indices == -1 .. MaxDim
Operands == {"A", "B", "C"}
Slots == Operands \cup {"R"}

RECURSIVE SeqsOfLen(_, _)
SeqsOfLen(S, n) ==
  IF n = 0 THEN {<<>>}
  ELSE {Append(q, x) : q \in SeqsOfLen(S, n - 1), x \in S}

SeqsUpTo(S, n) == UNION {SeqsOfLen(S, k) : k \in 0 .. n}

(***************************************************************************)
(* Pointers.                                                               *)
(***************************************************************************)
Null == [rows |-> -1, cols |-> -1, linear |-> 0, data |-> <<>>]

IsNull(m) == m = Null

\* malloc: the lowest address that names no live block
Malloc(h) == CHOOSE a \in 1 .. (Cardinality(DOMAIN h) + 1) : a \notin DOMAIN h

Free(h, a) == [b \in (DOMAIN h) \ {a} |-> h[b]]

(***************************************************************************)
(* Matrix<T>::Matrix and RowMatrix<T>::RowMatrix.  `garbage` is what the   *)
(* malloc'ed block happens to hold: the constructors initialise nothing.   *)
(***************************************************************************)
MatrixCtor(h, rows, cols, garbage) ==
  LET a == Malloc(h) IN
  [heap |-> (a :> garbage) @@ h,
   mat  |-> [rows |-> rows, cols |-> cols, linear |-> a, data |-> <<>>]]

RowMatrixCtor(h, rows, cols, garbage) ==
  LET base == MatrixCtor(h, rows, cols, garbage) IN
  [heap |-> base.heap,
   mat  |-> [base.mat EXCEPT
               !.data = [i \in 1 .. rows |->
                           [base |-> base.mat.linear, off |-> (i - 1) * cols]]]]

GetRowCount(m) == m.rows

GetColumnCount(m) == m.cols

\* data_[i][j]: the cell the i-th row pointer plus j designates
Deref(h, m, i, j) == h[m.data[i + 1].base][m.data[i + 1].off + j + 1]

(***************************************************************************)
(* RowMatrix<T>::GetElement / SetElement / FillFrom.                        *)
(* A call yields threw = TRUE when it throws OutOfRangeException.          *)
(***************************************************************************)
GetElement(h, m, i, j) ==
  IF i >= m.rows \/ j >= m.cols \/ i < 0 \/ j < 0
  THEN [threw |-> TRUE, val |-> 0]
  ELSE [threw |-> FALSE, val |-> Deref(h, m, i, j)]

\* a range check that is off by one: the last row and column are rejected
SetElementOffByOne(h, m, i, j, val) ==
  IF i >= m.rows - 1 \/ j >= m.cols - 1 \/ i < 0 \/ j < 0
  THEN [threw |-> TRUE, heap |-> h]
  ELSE [threw |-> FALSE,
        heap |-> [h EXCEPT ![m.data[i + 1].base][m.data[i + 1].off + j + 1] = val]]

\* a write that forgets the column: data_[i][0] = val
SetElementFirstColumn(h, m, i, j, val) ==
  IF i >= m.rows \/ j >= m.cols \/ i < 0 \/ j < 0
  THEN [threw |-> TRUE, heap |-> h]
  ELSE [threw |-> FALSE,
        heap |-> [h EXCEPT ![m.data[i + 1].base][m.data[i + 1].off + 1] = val]]

SetElement(h, m, i, j, val) ==
  IF i >= m.rows \/ j >= m.cols \/ i < 0 \/ j < 0
  THEN [threw |-> TRUE, heap |-> h]
  ELSE [threw |-> FALSE,
        heap |-> [h EXCEPT ![m.data[i + 1].base][m.data[i + 1].off + j + 1] = val]]

\* a fill that reads the source in column-major order: source[j * rows + i]
RECURSIVE FillLoopColumnMajor(_, _, _, _, _)
FillLoopColumnMajor(h, m, source, i, j) ==
  IF i >= m.rows THEN h
  ELSE IF j >= m.cols THEN FillLoopColumnMajor(h, m, source, i + 1, 0)
  ELSE FillLoopColumnMajor(
         [h EXCEPT ![m.data[i + 1].base][m.data[i + 1].off + j + 1] =
                      source[j * m.rows + i + 1]],
         m, source, i, j + 1)

RECURSIVE FillLoop(_, _, _, _, _)
FillLoop(h, m, source, i, j) ==
  IF i >= m.rows THEN h
  ELSE IF j >= m.cols THEN FillLoop(h, m, source, i + 1, 0)
  ELSE FillLoop(
         [h EXCEPT ![m.data[i + 1].base][m.data[i + 1].off + j + 1] =
                      source[i * m.cols + j + 1]],
         m, source, i, j + 1)

\* a size check that only rejects a source that is too short
FillFromAtLeast(h, m, source) ==
  LET size == Len(source) IN
  IF m.rows * m.cols > size
  THEN [threw |-> TRUE, heap |-> h]
  ELSE [threw |-> FALSE, heap |-> FillLoop(h, m, source, 0, 0)]

FillFrom(h, m, source) ==
  LET size == Len(source) IN
  IF m.rows * m.cols # size
  THEN [threw |-> TRUE, heap |-> h]
  ELSE [threw |-> FALSE, heap |-> FillLoop(h, m, source, 0, 0)]

(***************************************************************************)
(* Element arithmetic.  With T = int an element is an integer; the bounds  *)
(* keep every sum and product far inside the range of int, where C++       *)
(* arithmetic is exact.  With T = int64_t an element is its two's          *)
(* complement representation: WideBytes bytes, least significant first.    *)
(* `int sum` (line 260) is IntBytes bytes whatever T is.                   *)
(***************************************************************************)
IntBytes == 4
WideBytes == 8

RECURSIVE AddFrom(_, _, _, _)
AddFrom(x, y, n, carry) ==
  IF n > Len(x) THEN <<>>
  ELSE LET total == x[n] + y[n] + carry
       IN  <<total % 256>> \o AddFrom(x, y, n + 1, total \div 256)

\* x + y modulo 2^(8 * Len(x))
AddBytes(x, y) == AddFrom(x, y, 1, 0)

\* the sum of the byte products x[i] * y[n + 1 - i] that weigh 256^(n - 1)
RECURSIVE Column(_, _, _, _)
Column(x, y, n, i) ==
  IF i > n THEN 0 ELSE x[i] * y[n + 1 - i] + Column(x, y, n, i + 1)

RECURSIVE MulFrom(_, _, _, _)
MulFrom(x, y, n, carry) ==
  IF n > Len(x) THEN <<>>
  ELSE LET total == Column(x, y, n, 1) + carry
       IN  <<total % 256>> \o MulFrom(x, y, n + 1, total \div 256)

\* x * y modulo 2^(8 * Len(x))
MulBytes(x, y) == MulFrom(x, y, 1, 0)

\* conversion int64_t -> int: the low IntBytes bytes
Narrow(x) == SubSeq(x, 1, IntBytes)

\* conversion int -> int64_t: sign extension
Widen(s) ==
  s \o [k \in 1 .. (WideBytes - IntBytes) |-> IF s[IntBytes] >= 128 THEN 255 ELSE 0]

\* a sum that reads the first operand twice: elem1 + elem1
TPlusFirstTwice(t, x, y) == IF t = "int" THEN x + x ELSE AddBytes(x, x)

\* elem1 + elem2 (line 236)
TPlus(t, x, y) == IF t = "int" THEN x + y ELSE AddBytes(x, y)

\* matrixA->GetElement(i, k) * matrixB->GetElement(k, j) (line 262)
TTimes(t, x, y) == IF t = "int" THEN x * y ELSE MulBytes(x, y)

\* int sum = 0 (line 260)
SumZero(t) == IF t = "int" THEN 0 ELSE [k \in 1 .. IntBytes |-> 0]

\* an accumulation that assigns instead of adding: sum = product
SumAssign(t, sum, product) ==
  IF t = "int" THEN product ELSE Narrow(product)

\* sum += product (line 262): sum is converted to the type of the product,
\* added there, and the total converted back to int
SumAccumulate(t, sum, product) ==
  IF t = "int" THEN sum + product ELSE Narrow(AddBytes(Widen(sum), product))

\* the conversion of the int argument of res->SetElement(i, j, sum) to T
TFromInt(t, sum) == IF t = "int" THEN sum ELSE Widen(sum)

(***************************************************************************)
(* RowMatrixOperations<T>.  Each operation yields the heap it leaves, the  *)
(* unique_ptr it returns (Null for nullptr) and how it ended: "returned",  *)
(* "OutOfRange" (an exception of an element access escaped) or "nullderef" *)
(* (it called a member function through a null matrix pointer).  `junk`   *)
(* is what the cells of the freshly allocated result hold before the loop. *)
(***************************************************************************)
Junk(rows, cols, junk) == [n \in 1 .. rows * cols |-> junk]

\* an addition that accumulates into matrixA instead of the new matrix
RECURSIVE AddLoopInPlace(_, _, _, _, _, _, _)
AddLoopInPlace(t, h, res, matrixA, matrixB, i, j) ==
  IF i >= GetRowCount(matrixA) THEN [heap |-> h, threw |-> FALSE]
  ELSE IF j >= GetColumnCount(matrixA)
       THEN AddLoopInPlace(t, h, res, matrixA, matrixB, i + 1, 0)
  ELSE
    LET elem1 == GetElement(h, matrixA, i, j)
        elem2 == GetElement(h, matrixB, i, j)
        set == SetElement(h, matrixA, i, j, TPlus(t, elem1.val, elem2.val))
        copy == SetElement(set.heap, res, i, j, TPlus(t, elem1.val, elem2.val))
    IN  AddLoopInPlace(t, copy.heap, res, matrixA, matrixB, i, j + 1)

RECURSIVE AddLoop(_, _, _, _, _, _, _)
AddLoop(t, h, res, matrixA, matrixB, i, j) ==
  IF i >= GetRowCount(matrixA) THEN [heap |-> h, threw |-> FALSE]
  ELSE IF j >= GetColumnCount(matrixA) THEN AddLoop(t, h, res, matrixA, matrixB, i + 1, 0)
  ELSE
    LET elem1 == GetElement(h, matrixA, i, j)
        elem2 == GetElement(h, matrixB, i, j)
    IN  IF elem1.threw \/ elem2.threw THEN [heap |-> h, threw |-> TRUE]
        ELSE LET set == SetElement(h, res, i, j, TPlus(t, elem1.val, elem2.val))
             IN  IF set.threw THEN [heap |-> h, threw |-> TRUE]
                 ELSE AddLoop(t, set.heap, res, matrixA, matrixB, i, j + 1)

Add(t, h, matrixA, matrixB, junk) ==
  IF IsNull(matrixA) \/ IsNull(matrixB)
  THEN [heap |-> h, res |-> Null, status |-> "nullderef"]
  ELSE
    LET rowCountA == GetRowCount(matrixA)
        columnCountA == GetColumnCount(matrixA)
        rowCountB == GetRowCount(matrixB)
        columnCountB == GetColumnCount(matrixB)
    IN  IF rowCountA # rowCountB \/ columnCountA # columnCountB
        THEN [heap |-> h, res |-> Null, status |-> "returned"]
        ELSE
          LET new == RowMatrixCtor(h, rowCountA, columnCountA,
                                   Junk(rowCountA, columnCountA, junk))
              loop == AddLoop(t, new.heap, new.mat, matrixA, matrixB, 0, 0)
          IN  IF loop.threw
              THEN [heap |-> h, res |-> Null, status |-> "OutOfRange"]
              ELSE [heap |-> loop.heap, res |-> new.mat, status |-> "returned"]

\* the innermost loop of Multiply: the value of sum after it, or a throw
RECURSIVE SumLoop(_, _, _, _, _, _, _, _)
SumLoop(t, h, matrixA, matrixB, i, j, k, sum) ==
  IF k >= GetRowCount(matrixB) THEN [threw |-> FALSE, val |-> sum]
  ELSE
    LET a == GetElement(h, matrixA, i, k)
        b == GetElement(h, matrixB, k, j)
    IN  IF a.threw \/ b.threw THEN [threw |-> TRUE, val |-> sum]
        ELSE SumLoop(t, h, matrixA, matrixB, i, j, k + 1,
                     SumAccumulate(t, sum, TTimes(t, a.val, b.val)))

RECURSIVE MultiplyLoop(_, _, _, _, _, _, _)
MultiplyLoop(t, h, res, matrixA, matrixB, i, j) ==
  IF i >= GetRowCount(matrixA) THEN [heap |-> h, threw |-> FALSE]
  ELSE IF j >= GetColumnCount(matrixB)
       THEN MultiplyLoop(t, h, res, matrixA, matrixB, i + 1, 0)
  ELSE
    LET sum == SumLoop(t, h, matrixA, matrixB, i, j, 0, SumZero(t))
    IN  IF sum.threw THEN [heap |-> h, threw |-> TRUE]
        ELSE LET set == SetElement(h, res, i, j, TFromInt(t, sum.val))
             IN  IF set.threw THEN [heap |-> h, threw |-> TRUE]
                 ELSE MultiplyLoop(t, set.heap, res, matrixA, matrixB, i, j + 1)

Multiply(t, h, matrixA, matrixB, junk) ==
  IF IsNull(matrixA) \/ IsNull(matrixB)
  THEN [heap |-> h, res |-> Null, status |-> "nullderef"]
  ELSE
    LET rowCountA == GetRowCount(matrixA)
        columnCountA == GetColumnCount(matrixA)
        rowCountB == GetRowCount(matrixB)
        columnCountB == GetColumnCount(matrixB)
    IN  IF rowCountB # columnCountA
        THEN [heap |-> h, res |-> Null, status |-> "returned"]
        ELSE
          LET new == RowMatrixCtor(h, rowCountA, columnCountB,
                                   Junk(rowCountA, columnCountB, junk))
              loop == MultiplyLoop(t, new.heap, new.mat, matrixA, matrixB, 0, 0)
          IN  IF loop.threw
              THEN [heap |-> h, res |-> Null, status |-> "OutOfRange"]
              ELSE [heap |-> loop.heap, res |-> new.mat, status |-> "returned"]

\* ~RowMatrix and ~Matrix of the temporary a unique_ptr owned
Destroy(h, m) == IF IsNull(m) THEN h ELSE Free(h, m.linear)

\* Add(Multiply(matrixA, matrixB), matrixC).  Multiply returns a
\* std::unique_ptr<RowMatrix<T>> and Add takes a const RowMatrix<T> *: there is
\* no conversion from the one to the other, so every instantiation of GEMM is
\* ill-formed and a call of it has no outcome: nothing is allocated, nothing
\* is returned, whatever the operands are.
GEMM(t, h, matrixA, matrixB, matrixC, junk) ==
  [heap |-> h, res |-> Null, status |-> "ill-formed"]

(***************************************************************************)
(* The caller.  Init is the state after the caller has constructed its     *)
(* operands: each has a shape of the bounds and the cells its block        *)
(* happened to hold.                                                       *)
(***************************************************************************)
WideOne == <<1, 0, 0, 0, 0, 0, 0, 0>>
WideTwoTo16 == <<0, 0, 1, 0, 0, 0, 0, 0>>
WideMinusOne == <<255, 255, 255, 255, 255, 255, 255, 255>>
WideValues == {WideOne, WideTwoTo16, WideMinusOne}

Cells(t) == IF t = "int" THEN Values ELSE WideValues

NoCall == [op |-> "none", m |-> "R", i |-> 0, j |-> 0, val |-> 0, source |-> <<>>,
           outcome |-> "returned", ret |-> 0]

Alive == last.outcome # "segfault"

Contents(t, shape) == SeqsOfLen(Cells(t), shape[1] * shape[2])

Constructed(t, sA, gA, sB, gB, sC, gC) ==
  LET a == RowMatrixCtor(<<>>, sA[1], sA[2], gA)
      b == RowMatrixCtor(a.heap, sB[1], sB[2], gB)
      c == RowMatrixCtor(b.heap, sC[1], sC[2], gC)
  IN  [heap |-> c.heap,
       mats |-> [s \in Slots |-> CASE s = "A" -> a.mat [] s = "B" -> b.mat
                                   [] s = "C" -> c.mat [] OTHER -> Null]]

\* the caller holds three operands
InitWith(t) ==
  \E sA \in Shapes, sB \in Shapes, sC \in Shapes :
    \E gA \in Contents(t, sA), gB \in Contents(t, sB), gC \in Contents(t, sC) :
      LET c == Constructed(t, sA, gA, sB, gB, sC, gC) IN
      /\ T = t
      /\ heap = c.heap
      /\ mats = c.mats
      /\ last = NoCall

\* the caller holds one matrix, of any shape up to MaxDim x MaxDim
InitMatrix ==
  \E s \in Dims \X Dims :
    \E g \in Contents("int", s) :
      LET a == RowMatrixCtor(<<>>, s[1], s[2], g) IN
      /\ T = "int"
      /\ heap = a.heap
      /\ mats = [m \in Slots |-> IF m = "A" THEN a.mat ELSE Null]
      /\ last = NoCall

InitOps == InitWith("int")

InitWide == InitWith("int64_t")

(***************************************************************************)
(* Calls of the element accessors on a matrix the caller holds.            *)
(***************************************************************************)
CallGetElement(m, i, j) ==
  /\ Alive
  /\ ~IsNull(mats[m])
  /\ LET r == GetElement(heap, mats[m], i, j) IN
     last' = [NoCall EXCEPT !.op = "GetElement", !.m = m, !.i = i, !.j = j,
                            !.outcome = IF r.threw THEN "OutOfRange" ELSE "returned",
                            !.ret = r.val]
  /\ UNCHANGED <<T, heap, mats>>

CallSetElement(m, i, j, val) ==
  /\ Alive
  /\ ~IsNull(mats[m])
  /\ LET r == SetElement(heap, mats[m], i, j, val) IN
     /\ heap' = r.heap
     /\ last' = [NoCall EXCEPT !.op = "SetElement", !.m = m, !.i = i, !.j = j,
                               !.val = val,
                               !.outcome = IF r.threw THEN "OutOfRange" ELSE "returned"]
  /\ UNCHANGED <<T, mats>>

CallFillFrom(m, source) ==
  /\ Alive
  /\ ~IsNull(mats[m])
  /\ LET r == FillFrom(heap, mats[m], source) IN
     /\ heap' = r.heap
     /\ last' = [NoCall EXCEPT !.op = "FillFrom", !.m = m, !.source = source,
                               !.outcome = IF r.threw THEN "OutOfRange" ELSE "returned"]
  /\ UNCHANGED <<T, mats>>

(***************************************************************************)
(* Calls of the operations: R.reset(); R = Op(A, B).  A member call         *)
(* through a null matrix pointer is undefined behaviour: the read of the   *)
(* vtable pointer at address 0 either faults, or yields dimensions that    *)
(* differ from the other operand's, and Add returns nullptr.               *)
(***************************************************************************)
NullDerefOutcomes == {"segfault", "nullptr"}

Finish(op, r, how) ==
  /\ heap' = r.heap
  /\ mats' = [mats EXCEPT !["R"] = r.res]
  /\ last' = [NoCall EXCEPT !.op = op, !.outcome = how]
  /\ UNCHANGED T

Outcomes(r) ==
  IF r.status = "nullderef" THEN NullDerefOutcomes
  ELSE IF r.status = "OutOfRange" THEN {"OutOfRange"}
  ELSE IF IsNull(r.res) THEN {"nullptr"} ELSE {"matrix"}

CallAdd ==
  /\ Alive
  /\ \E junk \in Cells(T) :
       LET r == Add(T, Destroy(heap, mats["R"]), mats["A"], mats["B"], junk) IN
       \E how \in Outcomes(r) : Finish("Add", r, how)

CallMultiply ==
  /\ Alive
  /\ \E junk \in Cells(T) :
       LET r == Multiply(T, Destroy(heap, mats["R"]), mats["A"], mats["B"], junk) IN
       \E how \in Outcomes(r) : Finish("Multiply", r, how)

Sources == SeqsUpTo(Values, MaxSource)

NextMatrix ==
  \/ \E m \in Slots, i \in Indices, j \in Indices : CallGetElement(m, i, j)
  \/ \E m \in Slots, i \in Indices, j \in Indices, val \in Values :
       CallSetElement(m, i, j, val)
  \/ \E m \in Slots, source \in Sources : CallFillFrom(m, source)

NextOps == CallAdd \/ CallMultiply

\* accessor calls on one matrix, T = int
SpecMatrix == InitMatrix /\ [][NextMatrix]_vars

\* operations on three operands, T = int
SpecOps == InitOps /\ [][NextOps]_vars

\* operations on three operands, T = int64_t
SpecWide == InitWide /\ [][NextOps]_vars

(***************************************************************************)
(* Properties of the accessors (SpecMatrix).                               *)
(***************************************************************************)
InRange(m, i, j) == 0 <= i /\ i < m.rows /\ 0 <= j /\ j < m.cols

\* the matrix the last call was made on
Target == mats[last.m]

\* C2: after SetElement(i, j, v) with 0 <= i < rows and 0 <= j < cols, whatever
\* calls came before it, GetElement(i, j) returns v.
C2_SetThenGet ==
  (last.op = "SetElement" /\ InRange(Target, last.i, last.j))
    => /\ last.outcome = "returned"
       /\ GetElement(heap, Target, last.i, last.j) = [threw |-> FALSE, val |-> last.val]

C2_Witness ==
  /\ last.op = "SetElement"
  /\ last.outcome = "returned"
  /\ last.i = 1 /\ last.j = 1
  /\ last.val = MaxVal
  /\ GetElement(heap, Target, 0, 1).val = 0

\* C3: GetElement and SetElement throw OutOfRange exactly when i < 0, i >= rows,
\* j < 0 or j >= cols, and a call that throws leaves every element unchanged.
C3_OutOfRange ==
  [][last'.op \in {"GetElement", "SetElement"}
       => /\ (last'.outcome = "OutOfRange")
               <=> (\/ last'.i < 0 \/ last'.i >= mats'[last'.m].rows
                    \/ last'.j < 0 \/ last'.j >= mats'[last'.m].cols)
          /\ (last'.outcome = "OutOfRange") => (heap' = heap /\ mats' = mats)]_vars

C3_Witness ==
  /\ last.op = "SetElement"
  /\ last.outcome = "OutOfRange"
  /\ last.i = 0 /\ last.j = 0
  /\ Target.rows = 0
  /\ Target.cols = MaxDim

\* C4: FillFrom(source) with Len(source) = rows * cols overwrites the matrix in
\* row-major order: GetElement(i, j) = source[i * cols + j] for every valid (i, j).
C4_FillRowMajor ==
  (last.op = "FillFrom" /\ Len(last.source) = Target.rows * Target.cols)
    => /\ last.outcome = "returned"
       /\ \A i \in 0 .. Target.rows - 1, j \in 0 .. Target.cols - 1 :
            GetElement(heap, Target, i, j) =
              [threw |-> FALSE, val |-> last.source[i * Target.cols + j + 1]]

C4_Witness ==
  /\ last.op = "FillFrom"
  /\ last.outcome = "returned"
  /\ Target.rows = 2 /\ Target.cols = 2
  /\ last.source = <<0, MaxVal, 0, 0>>

\* C5: FillFrom(source) with Len(source) # rows * cols throws OutOfRange and
\* writes nothing: every element holds the value it held before the call.
C5_FillRejects ==
  [][(last'.op = "FillFrom"
        /\ Len(last'.source) # mats'[last'.m].rows * mats'[last'.m].cols)
       => (last'.outcome = "OutOfRange" /\ heap' = heap /\ mats' = mats)]_vars

C5_Witness ==
  /\ last.op = "FillFrom"
  /\ last.outcome = "OutOfRange"
  /\ Target.rows = 1 /\ Target.cols = 2
  /\ Len(last.source) = 3
  /\ heap[Target.linear] = <<MaxVal, 0>>

(***************************************************************************)
(* Properties of the operations (SpecOps, SpecWide).                       *)
(***************************************************************************)
OpNames == {"Add", "Multiply"}

OpA == mats["A"]
OpB == mats["B"]
OpC == mats["C"]
Res == mats["R"]

\* element (i, j) of a matrix, read at offset i * cols + j of its buffer
Elem(m, i, j) == heap[m.linear][i * m.cols + j + 1]

\* the sum over k' in k .. a.cols - 1 of a(i, k') * b(k', j)
RECURSIVE DotSum(_, _, _, _, _)
DotSum(a, b, i, j, k) ==
  IF k >= a.cols THEN 0 ELSE Elem(a, i, k) * Elem(b, k, j) + DotSum(a, b, i, j, k + 1)

\* two returned pointers are both null, or name matrices of equal shape and cells
SameResult(h1, r1, h2, r2) ==
  IF IsNull(r1) \/ IsNull(r2) THEN IsNull(r1) /\ IsNull(r2)
  ELSE r1.rows = r2.rows /\ r1.cols = r2.cols /\ h1[r1.linear] = h2[r2.linear]

\* C1: when A.cols # B.rows, GEMM(A, B, C) returns nullptr: the null result of
\* Multiply passes through Add without an error and without a null dereference.
C1_NullPropagates ==
  OpA.cols # OpB.rows
    => LET gemm == GEMM(T, heap, OpA, OpB, OpC, 0)
       IN  gemm.status = "returned" /\ IsNull(gemm.res)

\* C6: Multiply(A, B) returns nullptr exactly when A.cols # B.rows; otherwise it
\* returns an A.rows x B.cols matrix with result(i, j) the sum over k of
\* A(i, k) * B(k, j) (0 when A.cols = 0), and no element access throws.
C6_Multiply ==
  last.op = "Multiply"
    => /\ last.outcome \in {"nullptr", "matrix"}
       /\ (last.outcome = "nullptr") <=> (OpA.cols # OpB.rows)
       /\ (last.outcome = "nullptr") => IsNull(Res)
       /\ (last.outcome = "matrix")
            => /\ ~IsNull(Res)
               /\ Res.rows = OpA.rows /\ Res.cols = OpB.cols
               /\ Len(heap[Res.linear]) = OpA.rows * OpB.cols
               /\ \A i \in 0 .. OpA.rows - 1, j \in 0 .. OpB.cols - 1 :
                    /\ Elem(Res, i, j) = DotSum(OpA, OpB, i, j, 0)
                    /\ GetElement(heap, Res, i, j).val = DotSum(OpA, OpB, i, j, 0)

C6_Witness ==
  /\ last.op = "Multiply"
  /\ last.outcome = "matrix"
  /\ OpA.rows = 1 /\ OpA.cols = 2 /\ OpB.cols = 1
  /\ Elem(Res, 0, 0) = 2 * MaxVal * MaxVal

\* C7: Add(A, B) returns nullptr exactly when the shapes of A and B differ;
\* otherwise it returns a matrix of A's shape with result(i, j) = A(i, j) + B(i, j),
\* and Add(B, A) returns a matrix of the same content.
C7_Add ==
  last.op = "Add"
    => /\ last.outcome \in {"nullptr", "matrix"}
       /\ (last.outcome = "nullptr") <=> (OpA.rows # OpB.rows \/ OpA.cols # OpB.cols)
       /\ (last.outcome = "nullptr") => IsNull(Res)
       /\ (last.outcome = "matrix")
            => /\ ~IsNull(Res)
               /\ Res.rows = OpA.rows /\ Res.cols = OpA.cols
               /\ Len(heap[Res.linear]) = OpA.rows * OpA.cols
               /\ \A i \in 0 .. OpA.rows - 1, j \in 0 .. OpA.cols - 1 :
                    /\ Elem(Res, i, j) = Elem(OpA, i, j) + Elem(OpB, i, j)
                    /\ GetElement(heap, Res, i, j).val = Elem(OpA, i, j) + Elem(OpB, i, j)
               /\ LET swapped == Add(T, heap, OpB, OpA, 0)
                  IN  /\ swapped.status = "returned"
                      /\ SameResult(heap, Res, swapped.heap, swapped.res)

C7_Witness ==
  /\ last.op = "Add"
  /\ last.outcome = "matrix"
  /\ OpA.rows = 2 /\ OpA.cols = 1
  /\ heap[OpA.linear] = <<MaxVal, 0>>
  /\ heap[OpB.linear] = <<MaxVal, MaxVal>>
  /\ heap[Res.linear] = <<2 * MaxVal, MaxVal>>

\* C8: when A.cols = B.rows, GEMM(A, B, C) is nullptr if (A.rows, B.cols) differs
\* from C's shape, and otherwise a matrix of C's shape with result(i, j) =
\* (sum over k of A(i, k) * B(k, j)) + C(i, j): the outcome of Add(Multiply(A, B), C).
C8_GEMM ==
  OpA.cols = OpB.rows
    => LET gemm == GEMM(T, heap, OpA, OpB, OpC, 0)
           product == Multiply(T, heap, OpA, OpB, 0)
           total == Add(T, product.heap, product.res, OpC, 0)
       IN  /\ gemm.status = "returned"
           /\ IsNull(gemm.res) <=> (OpA.rows # OpC.rows \/ OpB.cols # OpC.cols)
           /\ ~IsNull(gemm.res)
                => /\ gemm.res.rows = OpC.rows /\ gemm.res.cols = OpC.cols
                   /\ \A i \in 0 .. OpC.rows - 1, j \in 0 .. OpC.cols - 1 :
                        gemm.heap[gemm.res.linear][i * OpC.cols + j + 1] =
                          DotSum(OpA, OpB, i, j, 0) + Elem(OpC, i, j)
           /\ SameResult(gemm.heap, gemm.res, total.heap, total.res)

\* the returned matrix owns a block no operand uses, and its row pointers
\* point into that block
DistinctInstance ==
  ~IsNull(Res)
    => /\ Res.linear \in DOMAIN heap
       /\ \A m \in Operands : mats[m].linear # Res.linear
       /\ \A r \in 1 .. Res.rows : Res.data[r].base = Res.linear

\* whatever SetElement or FillFrom call is made next on a matrix the caller
\* holds and writes to it, the cells of every other block stay as they are
OthersKeep(h, m) ==
  \A a \in (DOMAIN heap) \ {mats[m].linear} : h[a] = heap[a]

LaterWritesIsolated ==
  \A m \in Slots :
    ~IsNull(mats[m])
      => /\ \A i \in 0 .. mats[m].rows - 1, j \in 0 .. mats[m].cols - 1, val \in Values :
              LET set == SetElement(heap, mats[m], i, j, val)
              IN  ~set.threw /\ OthersKeep(set.heap, m)
         /\ \A source \in SeqsOfLen(Values, mats[m].rows * mats[m].cols) :
              LET fill == FillFrom(heap, mats[m], source)
              IN  ~fill.threw /\ OthersKeep(fill.heap, m)

\* C9: a call of an operation that returns (a matrix or nullptr) leaves the shape
\* and every element of A, B and C unchanged, and a returned matrix is a distinct
\* instance: a later SetElement or FillFrom on the result or on an operand
\* changes no other matrix.  The calls are those of Add and Multiply: GEMM has
\* none.
C9_OperandsUntouched ==
  /\ [][(last'.op \in OpNames /\ last'.outcome \in {"nullptr", "matrix"})
          => \A m \in Operands :
               /\ mats'[m] = mats[m]
               /\ heap'[mats[m].linear] = heap[mats[m].linear]]_vars
  /\ []((last.op \in OpNames /\ last.outcome \in {"nullptr", "matrix"})
          => (DistinctInstance /\ LaterWritesIsolated))

C9_Witness ==
  /\ last.op = "Add"
  /\ last.outcome = "matrix"
  /\ Res.rows = 1 /\ Res.cols = 2
  /\ heap[OpA.linear] = <<MaxVal, 0>>
  /\ heap[Res.linear] = <<MaxVal, MaxVal>>
  /\ SetElement(heap, Res, 0, 1, 0).heap[Res.linear] = <<MaxVal, 0>>
  /\ SetElement(heap, Res, 0, 1, 0).heap[OpA.linear] = heap[OpA.linear]

\* the sum over k' in k .. a.cols - 1 of a(i, k') * b(k', j), modulo 2^64
RECURSIVE WideDotSum(_, _, _, _, _)
WideDotSum(a, b, i, j, k) ==
  IF k >= a.cols THEN [n \in 1 .. WideBytes |-> 0]
  ELSE AddBytes(MulBytes(Elem(a, i, k), Elem(b, k, j)), WideDotSum(a, b, i, j, k + 1))

\* C10: with a 64-bit element type, result(i, j) of Multiply is the sum over k of
\* A(i, k) * B(k, j) reduced modulo 2^64 only: the running sum is not narrowed to
\* fewer bits than the element type holds.
C10_FullWidthSum ==
  (T = "int64_t" /\ last.op = "Multiply" /\ last.outcome = "matrix")
    => \A i \in 0 .. OpA.rows - 1, j \in 0 .. OpB.cols - 1 :
         Elem(Res, i, j) = WideDotSum(OpA, OpB, i, j, 0)

====
